---------------------------- MODULE Spec2Model ----------------------------
(***************************************************************************)
(* Model of the SLE password-based encryption engine                       *)
(* (src/src/encryption.py) and of its file-backed wrappers.                *)
(*                                                                         *)
(* Byte strings are sequences of integers in 0..255.  An exception is a    *)
(* record naming the exception type, its message and the line of           *)
(* encryption.py whose statement raises it.                                *)
(*                                                                         *)
(* The `cryptography` primitives the engine calls are represented by what  *)
(* their documentation promises and nothing more:                          *)
(*   - PBKDF2-HMAC-SHA256 is a deterministic function of the HMAC key      *)
(*     (the password zero-padded to the 64-byte hash block, RFC 2104) and  *)
(*     of the salt, with 32 output bytes;                                  *)
(*   - AES-256 is, for each key, a permutation of the 16-byte blocks;      *)
(*   - CBC, PKCS7 padding and unpadding are computed byte by byte.         *)
(* The digest and the block permutation are small arithmetic stand-ins:    *)
(* no property below is claimed on the strength of their weakness.         *)
(***************************************************************************)
EXTENDS Integers, Sequences, FiniteSets, TLC

VARIABLES inp, pc, blob, call, ret, fs, tpc, targ, tenc, tret, tcount, written, lastw, ncalls

vars == <<inp, pc, blob, call, ret, fs, tpc, targ, tenc, tret, tcount, written, lastw, ncalls>>

fnvars == <<inp, pc, blob, call, ret>>

filevars == <<fs, tpc, targ, tenc, tret, tcount, written, lastw, ncalls>>

(***************************************************************************)
(* Program constants.                                                      *)
(***************************************************************************)
MAGIC_HEADER == <<95, 95, 83, 76, 69, 95, 95>>

BLOCK == 16

SALT_LEN == 16

IV_LEN == 16

KEY_LEN == 32

HEADER_LEN == 32

HMAC_BLOCK == 64

BYTE == 256

(***************************************************************************)
(* Bounds of the input sets.                                               *)
(***************************************************************************)
MaxFill == 10

NumSalts == 2

NumIVs == 2

MaxSaltLen == 18

NumThreads == 2

MaxCalls == 2

(***************************************************************************)
(* Byte-string helpers (Python slicing and concatenation).                 *)
(***************************************************************************)
Min(a, b) == IF a < b THEN a ELSE b

Fill(n, b) == [i \in 1..n |-> b]

\* s[a:b] of Python, for 0 <= a
Slice(s, a, b) == SubSeq(s, a + 1, Min(b, Len(s)))

\* s[a:] of Python
SliceFrom(s, a) == SubSeq(s, a + 1, Len(s))

\* isinstance(data, bytes): a value that is no bytes object (a str) is
\* represented by a sequence holding a code point outside 0..255
IsBytes(s) == \A i \in 1..Len(s) : s[i] \in 0..(BYTE - 1)

\* data.startswith(prefix)
startswith(s, prefix) ==
    /\ Len(s) >= Len(prefix)
    /\ \A i \in 1..Len(prefix) : s[i] = prefix[i]

RECURSIVE XorByte(_, _)
XorByte(a, b) ==
    IF a = 0 THEN b
    ELSE IF b = 0 THEN a
    ELSE ((a + b) % 2) + 2 * XorByte(a \div 2, b \div 2)

XorBlock(x, y) == [i \in 1..BLOCK |-> XorByte(x[i], y[i])]

Return(v) == [status |-> "return", value |-> v, exc |-> "", msg |-> "", line |-> 0]

Raise(e, m, l) == [status |-> "raise", value |-> <<>>, exc |-> e, msg |-> m, line |-> l]

NoRet == [status |-> "none", value |-> <<>>, exc |-> "", msg |-> "", line |-> 0]

(***************************************************************************)
(* Key derivation: PBKDF2HMAC(SHA256, length=32, salt, iterations=100000). *)
(***************************************************************************)
\* HMAC's key preparation: the password zero-padded to the hash block
\* (passwords of the model are shorter than the block, so none is hashed)
HmacKey(password) ==
    [i \in 1..HMAC_BLOCK |-> IF i <= Len(password) THEN password[i] ELSE 0]

RECURSIVE WeightedSum(_, _, _)
WeightedSum(s, i, w) ==
    IF i > Len(s) THEN 0
    ELSE (s[i] * (i * w + 1) + WeightedSum(s, i + 1, w)) % BYTE

\* stand-in for the iterated HMAC digest: deterministic in (HMAC key, salt)
Pbkdf2(password, salt, length) ==
    LET hk == HmacKey(password)
        a  == WeightedSum(hk, 1, 1)
        b  == WeightedSum(hk, 1, 3)
        c  == WeightedSum(salt, 1, 5)
    IN  [i \in 1..length |-> (a * i + b + c * (i + 2) + 7 * i * i) % BYTE]

\* mutant: only a salt that is too short is refused
derive_key_short_only(password, salt) ==
    IF Len(salt) < SALT_LEN
    THEN Raise("ValueError", "Salt must be exactly 16 bytes.", 39)
    ELSE Return(Pbkdf2(password, salt, KEY_LEN))

_derive_key(password, salt) ==
    IF Len(salt) # SALT_LEN
    THEN Raise("ValueError", "Salt must be exactly 16 bytes.", 39)
    ELSE Return(Pbkdf2(password, salt, KEY_LEN))

(***************************************************************************)
(* PKCS7(128) padder and unpadder.                                         *)
(***************************************************************************)
\* mutant: no pad block is added to data that already fills its blocks
PKCS7Pad_no_full_block(data) ==
    LET pad_size == (BLOCK - (Len(data) % BLOCK)) % BLOCK
    IN  data \o Fill(pad_size, pad_size)

PKCS7Pad(data) ==
    LET pad_size == BLOCK - (Len(data) % BLOCK)
    IN  data \o Fill(pad_size, pad_size)

\* the library's check of the last block: every one of the last pad_size
\* bytes equals pad_size, pad_size is not 0 and not above the block
RECURSIVE PadMismatch(_, _, _)
PadMismatch(block, pad_size, i) ==
    IF i >= BLOCK THEN FALSE
    ELSE \/ (i < pad_size /\ block[BLOCK - i] # pad_size)
         \/ PadMismatch(block, pad_size, i + 1)

PKCS7CheckOk(block) ==
    LET pad_size == block[BLOCK]
    IN  /\ ~PadMismatch(block, pad_size, 0)
        /\ pad_size # 0
        /\ pad_size <= BLOCK

\* mutant: an empty buffer unpads to nothing instead of being refused
PKCS7Unpad_empty_ok(padded) ==
    LET n == Len(padded)
    IN  IF n = 0 THEN Return(<<>>)
        ELSE IF n % BLOCK # 0 \/ ~PKCS7CheckOk(SliceFrom(padded, n - BLOCK))
        THEN Raise("ValueError", "Invalid padding bytes.", 100)
        ELSE Return(Slice(padded, 0, n - padded[n]))

\* unpadder.update(padded) + unpadder.finalize(): update holds the last
\* block back, finalize wants exactly one block in the buffer
PKCS7Unpad(padded) ==
    LET n         == Len(padded)
        finished  == IF n \div BLOCK >= 1 THEN (n \div BLOCK) - 1 ELSE 0
        buffer    == SliceFrom(padded, finished * BLOCK)
    IN  IF Len(buffer) # BLOCK
        THEN Raise("ValueError", "Invalid padding bytes.", 100)
        ELSE IF ~PKCS7CheckOk(buffer)
        THEN Raise("ValueError", "Invalid padding bytes.", 100)
        ELSE Return(Slice(padded, 0, n - buffer[BLOCK]))

(***************************************************************************)
(* AES-256 in CBC mode.                                                    *)
(***************************************************************************)
\* stand-in for the AES block permutation under a 32-byte key
AESEncryptBlock(key, b) ==
    [i \in 1..BLOCK |->
        (XorByte(b[((i + 4) % BLOCK) + 1], key[i]) + key[BLOCK + i]) % BYTE]

\* its inverse
AESDecryptBlock(key, c) ==
    [j \in 1..BLOCK |->
        LET i == ((j + BLOCK - 6) % BLOCK) + 1
        IN  XorByte((c[i] + BYTE - key[BLOCK + i]) % BYTE, key[i])]

RECURSIVE CBCEncryptFrom(_, _, _)
CBCEncryptFrom(key, prev, data) ==
    IF Len(data) = 0 THEN <<>>
    ELSE LET c == AESEncryptBlock(key, XorBlock(Slice(data, 0, BLOCK), prev))
         IN  c \o CBCEncryptFrom(key, c, SliceFrom(data, BLOCK))

\* encryptor.update(padded_data) + encryptor.finalize()
CBCEncrypt(key, iv, data) == CBCEncryptFrom(key, iv, data)

RECURSIVE CBCDecryptFrom(_, _, _)
CBCDecryptFrom(key, prev, data) ==
    IF Len(data) = 0 THEN <<>>
    ELSE LET c == Slice(data, 0, BLOCK)
         IN  XorBlock(AESDecryptBlock(key, c), prev)
                 \o CBCDecryptFrom(key, c, SliceFrom(data, BLOCK))

\* mutant: a trailing partial block is dropped instead of being refused
CBCDecrypt_drop_partial(key, iv, data) ==
    Return(CBCDecryptFrom(key, iv, Slice(data, 0, (Len(data) \div BLOCK) * BLOCK)))

\* decryptor.update(encrypted) + decryptor.finalize(): finalize refuses
\* buffered data that is no whole block
CBCDecrypt(key, iv, data) ==
    IF Len(data) % BLOCK # 0
    THEN Raise("ValueError",
               "The length of the provided data is not a multiple of the block length.", 97)
    ELSE Return(CBCDecryptFrom(key, iv, data))

(***************************************************************************)
(* SLE.encrypt and SLE.decrypt.                                            *)
(***************************************************************************)
\* mutant: the iv is left out of the blob
encrypt_without_iv(password, data, salt, iv) ==
    LET key == _derive_key(password, salt)
    IN  IF key.status = "raise" THEN key
        ELSE Return(salt \o CBCEncrypt(key.value, iv, PKCS7Pad(MAGIC_HEADER \o data)))

\* mutant: the marker is not prepended
encrypt_without_marker(password, data, salt, iv) ==
    LET key == _derive_key(password, salt)
    IN  IF key.status = "raise" THEN key
        ELSE Return(salt \o iv \o CBCEncrypt(key.value, iv, PKCS7Pad(data)))

\* salt and iv are the two os.urandom(16) draws
encrypt(password, data, salt, iv) ==
    LET key == _derive_key(password, salt)
    IN  IF key.status = "raise" THEN key
        ELSE IF ~IsBytes(data)
        THEN Raise("TypeError", "can't concat str to bytes", 65)
        ELSE LET padded_data == PKCS7Pad(MAGIC_HEADER \o data)
                 encrypted   == CBCEncrypt(key.value, iv, padded_data)
             IN  Return(salt \o iv \o encrypted)

\* mutant: the marker is checked but not cut off the result
decrypt_keeps_marker(password, encrypted_data) ==
    IF Len(encrypted_data) < HEADER_LEN
    THEN Raise("ValueError", "Encrypted data is too short or corrupted.", 87)
    ELSE
      LET key         == _derive_key(password, Slice(encrypted_data, 0, SALT_LEN))
          padded_data == CBCDecrypt(key.value, Slice(encrypted_data, SALT_LEN, HEADER_LEN),
                                    SliceFrom(encrypted_data, HEADER_LEN))
      IN  IF padded_data.status = "raise" THEN padded_data
          ELSE LET data == PKCS7Unpad(padded_data.value)
               IN  IF data.status = "raise" THEN data
                   ELSE IF ~startswith(data.value, MAGIC_HEADER)
                   THEN Raise("ValueError", "Invalid password or data corrupted.", 103)
                   ELSE data

\* mutant: the marker is looked for before the padding is removed
decrypt_marker_first(password, encrypted_data) ==
    IF Len(encrypted_data) < HEADER_LEN
    THEN Raise("ValueError", "Encrypted data is too short or corrupted.", 87)
    ELSE
      LET key         == _derive_key(password, Slice(encrypted_data, 0, SALT_LEN))
          padded_data == CBCDecrypt(key.value, Slice(encrypted_data, SALT_LEN, HEADER_LEN),
                                    SliceFrom(encrypted_data, HEADER_LEN))
      IN  IF padded_data.status = "raise" THEN padded_data
          ELSE IF ~startswith(padded_data.value, MAGIC_HEADER)
          THEN Raise("ValueError", "Invalid password or data corrupted.", 103)
          ELSE LET data == PKCS7Unpad(padded_data.value)
               IN  IF data.status = "raise" THEN data
                   ELSE Return(SliceFrom(data.value, Len(MAGIC_HEADER)))

decrypt(password, encrypted_data) ==
    IF Len(encrypted_data) < HEADER_LEN
    THEN Raise("ValueError", "Encrypted data is too short or corrupted.", 87)
    ELSE
      LET salt      == Slice(encrypted_data, 0, SALT_LEN)
          iv        == Slice(encrypted_data, SALT_LEN, HEADER_LEN)
          encrypted == SliceFrom(encrypted_data, HEADER_LEN)
          key       == _derive_key(password, salt)
      IN  IF key.status = "raise" THEN key
          ELSE
            LET padded_data == CBCDecrypt(key.value, iv, encrypted)
            IN  IF padded_data.status = "raise" THEN padded_data
                ELSE
                  LET data == PKCS7Unpad(padded_data.value)
                  IN  IF data.status = "raise" THEN data
                      ELSE IF ~startswith(data.value, MAGIC_HEADER)
                      THEN Raise("ValueError", "Invalid password or data corrupted.", 103)
                      ELSE Return(SliceFrom(data.value, Len(MAGIC_HEADER)))

(***************************************************************************)
(* Inputs of the calls.                                                    *)
(***************************************************************************)
CorrectHorse == <<99, 111, 114, 114, 101, 99, 116, 45, 104, 111, 114, 115, 101>>

WrongPassword == <<119, 114, 111, 110, 103, 45, 112, 97, 115, 115, 119, 111, 114, 100>>

TopSecret == <<116, 111, 112, 32, 115, 101, 99, 114, 101, 116>>

\* b"", b"pw", b"pw\x00" and the two passwords of the end-to-end scenario
Passwords == {<<>>, <<112, 119>>, <<112, 119, 0>>, CorrectHorse, WrongPassword}

FillBytes == {65, 16}

Plaintexts ==
    {Fill(n, b) : n \in 0..MaxFill, b \in FillBytes}
        \cup {MAGIC_HEADER \o Fill(n, 65) : n \in {0, 2, 9}}
        \cup {TopSecret, <<1>>, <<65, 2, 2>>, Fill(8, 65) \o <<1>>}

\* what os.urandom(16) may return
Salts == {[i \in 1..SALT_LEN |-> (s * 37 + i * s) % BYTE] : s \in 1..NumSalts}

IVs == {[i \in 1..IV_LEN |-> (v * 91 + i * i * v) % BYTE] : v \in 0..(NumIVs - 1)}

\* padded sequences a blob may decrypt to: a head, 65s, then `run` bytes
\* equal to `last`
RawOf(head, total, last, run) ==
    [i \in 1..total |->
        IF i > total - run THEN last
        ELSE IF i <= Len(head) THEN head[i]
        ELSE 65]

RawSeqs ==
    {RawOf(head, total, last, run) :
        head \in {MAGIC_HEADER, <<95, 95, 83>>, <<>>},
        total \in {BLOCK, 2 * BLOCK},
        last \in {0, 1, 3, 9, 13, 16, 17, 255},
        run \in {1, 2, 3, 9, 12, 13, 15, 16}}

SaltArgs == {Fill(n, b) : n \in 0..MaxSaltLen, b \in {0, 7}}

Inputs ==
    [kind : {"plain"}, k : Passwords, data : Plaintexts]
        \cup [kind : {"raw"}, k : {<<112, 119>>, CorrectHorse}, data : RawSeqs]
        \cup [kind : {"salt"}, k : Passwords, data : SaltArgs]

NoCall == [op |-> "none", k |-> <<>>, arg |-> <<>>, intact |-> FALSE]

\* lengths a stored blob may be cut to
CutLens == {0, 16, 31, 32, 33, 47, 48, 63}

(***************************************************************************)
(* The calls on one SLE object: encrypt, then decrypt of the blob as it    *)
(* is, cut, extended or made up; and _derive_key alone.                    *)
(***************************************************************************)
FileIdle ==
    /\ fs = <<>>
    /\ tpc = <<>>
    /\ targ = <<>>
    /\ tenc = <<>>
    /\ tret = <<>>
    /\ tcount = <<>>
    /\ written = {}
    /\ lastw = <<>>
    /\ ncalls = 0

Init ==
    /\ inp \in Inputs
    /\ pc = "start"
    /\ blob = <<>>
    /\ call = NoCall
    /\ ret = NoRet
    /\ FileIdle

Encrypt ==
    /\ pc = "start"
    /\ inp.kind = "plain"
    /\ \E salt \in Salts, iv \in IVs :
         LET r == encrypt(inp.k, inp.data, salt, iv)
         IN  /\ ret' = r
             /\ blob' = r.value
    /\ call' = [op |-> "encrypt", k |-> inp.k, arg |-> inp.data, intact |-> FALSE]
    /\ pc' = "encrypted"
    /\ UNCHANGED <<inp, filevars>>

\* a blob that was not made by encrypt: it decrypts, under inp.k, to inp.data
Forge ==
    /\ pc = "start"
    /\ inp.kind = "raw"
    /\ \E salt \in Salts, iv \in IVs :
         blob' = salt \o iv \o CBCEncrypt(_derive_key(inp.k, salt).value, iv, inp.data)
    /\ pc' = "held"
    /\ UNCHANGED <<inp, call, ret, filevars>>

\* the stored blob is cut short or extended before it is read back
Corrupt ==
    /\ pc = "encrypted"
    /\ \/ \E n \in CutLens : n < Len(blob) /\ blob' = Slice(blob, 0, n)
       \/ \E m \in {1, BLOCK} : blob' = blob \o Fill(m, 0)
    /\ pc' = "held"
    /\ UNCHANGED <<inp, call, ret, filevars>>

Decrypt ==
    /\ pc \in {"encrypted", "held"}
    /\ \E k2 \in Passwords :
         /\ ret' = decrypt(k2, blob)
         /\ call' = [op |-> "decrypt", k |-> k2, arg |-> blob, intact |-> (pc = "encrypted")]
    /\ pc' = "decrypted"
    /\ UNCHANGED <<inp, blob, filevars>>

DeriveKey ==
    /\ pc = "start"
    /\ inp.kind = "salt"
    /\ ret' = _derive_key(inp.k, inp.data)
    /\ call' = [op |-> "_derive_key", k |-> inp.k, arg |-> inp.data, intact |-> FALSE]
    /\ pc' = "derived"
    /\ UNCHANGED <<inp, blob, filevars>>

Next == Encrypt \/ Forge \/ Corrupt \/ Decrypt \/ DeriveKey

Spec == Init /\ [][Next]_vars

(***************************************************************************)
(* SLE.generate_file and SLE.read_file, statement by statement, called by  *)
(* threads that share one SLE object and one file system.                  *)
(***************************************************************************)
Threads == 1..NumThreads

Paths == {"a.ac.es", "b.ac.es"}

FilePassword == <<112, 119>>

\* a str handed in as data: no bytes object
StrData == <<BYTE + 120>>

FileData == {<<>>, TopSecret, StrData}

\* what an earlier generate_file left in a.ac.es: an 80-byte blob
OldData == Fill(33, 65)

OldBlob ==
    encrypt(FilePassword, OldData,
            [i \in 1..SALT_LEN |-> (200 + i) % BYTE],
            [i \in 1..IV_LEN |-> (100 + 3 * i) % BYTE]).value

\* the blobs encrypt returns for the data and the random draws of the model
EncryptOf ==
    [data \in FileData, salt \in Salts, iv \in IVs |->
        encrypt(FilePassword, data, salt, iv)]

NoFile == [exists |-> FALSE, content |-> <<>>]

NoCount == [enc |-> 0, open |-> 0, write |-> 0]

NoArg == [filename |-> "", data |-> <<>>]

Rest == {"idle", "gen_done", "gen_raised", "read_done", "read_raised"}

\* mutant: the file is opened for update ("r+b"), not truncated
open_without_truncate(file) == [exists |-> TRUE, content |-> file.content]

\* open(filename, "wb"): the file is created or truncated, offset 0
open_wb(file) == [exists |-> TRUE, content |-> <<>>]

\* f.write(encrypted) at offset 0 and the close of the with block
write_close(file, encrypted) ==
    [exists |-> TRUE, content |-> encrypted \o SliceFrom(file.content, Len(encrypted))]

FnIdle ==
    /\ inp = [kind |-> "none", k |-> <<>>, data |-> <<>>]
    /\ pc = "files"
    /\ blob = <<>>
    /\ call = NoCall
    /\ ret = NoRet

FileInit ==
    /\ FnIdle
    /\ fs = [f \in Paths |-> IF f = "a.ac.es"
                             THEN [exists |-> TRUE, content |-> OldBlob]
                             ELSE NoFile]
    /\ tpc = [t \in Threads |-> "idle"]
    /\ targ = [t \in Threads |-> NoArg]
    /\ tenc = [t \in Threads |-> <<>>]
    /\ tret = [t \in Threads |-> NoRet]
    /\ tcount = [t \in Threads |-> NoCount]
    /\ written = {OldBlob}
    /\ lastw = [f \in Paths |-> IF f = "a.ac.es"
                                THEN [kind |-> "old", blob |-> OldBlob, data |-> OldData]
                                ELSE [kind |-> "absent", blob |-> <<>>, data |-> <<>>]]
    /\ ncalls = 0

\* line 115: encrypted = self.encrypt(data)
GenEncrypt(t) ==
    /\ tpc[t] \in Rest
    /\ ncalls < MaxCalls
    /\ \E f \in Paths, data \in FileData, salt \in Salts, iv \in IVs :
         LET r == EncryptOf[data, salt, iv]
         IN  /\ targ' = [targ EXCEPT ![t] = [filename |-> f, data |-> data]]
             /\ IF r.status = "raise"
                THEN /\ tpc' = [tpc EXCEPT ![t] = "gen_raised"]
                     /\ tret' = [tret EXCEPT ![t] = r]
                     /\ tenc' = [tenc EXCEPT ![t] = <<>>]
                ELSE /\ tpc' = [tpc EXCEPT ![t] = "gen_encrypted"]
                     /\ tret' = [tret EXCEPT ![t] = NoRet]
                     /\ tenc' = [tenc EXCEPT ![t] = r.value]
    /\ tcount' = [tcount EXCEPT ![t] = [enc |-> 1, open |-> 0, write |-> 0]]
    /\ ncalls' = ncalls + 1
    /\ UNCHANGED <<fnvars, fs, written, lastw>>

\* line 116: with open(filename, "wb") as f
GenOpen(t) ==
    /\ tpc[t] = "gen_encrypted"
    /\ LET f == targ[t].filename
       IN  /\ fs' = [fs EXCEPT ![f] = open_wb(fs[f])]
           /\ lastw' = [lastw EXCEPT ![f] = [kind |-> "truncate", blob |-> <<>>, data |-> <<>>]]
    /\ tcount' = [tcount EXCEPT ![t].open = @ + 1]
    /\ tpc' = [tpc EXCEPT ![t] = "gen_open"]
    /\ UNCHANGED <<fnvars, targ, tenc, tret, written, ncalls>>

\* line 117: f.write(encrypted), and the file is closed
GenWrite(t) ==
    /\ tpc[t] = "gen_open"
    /\ LET f == targ[t].filename
       IN  /\ fs' = [fs EXCEPT ![f] = write_close(fs[f], tenc[t])]
           /\ lastw' = [lastw EXCEPT ![f] =
                           [kind |-> "write", blob |-> tenc[t], data |-> targ[t].data]]
    /\ written' = written \cup {tenc[t]}
    /\ tcount' = [tcount EXCEPT ![t].write = @ + 1]
    /\ tret' = [tret EXCEPT ![t] = Return(<<>>)]
    /\ tpc' = [tpc EXCEPT ![t] = "gen_done"]
    /\ UNCHANGED <<fnvars, targ, tenc, ncalls>>

\* lines 129-130: if not os.path.exists(filename): raise FileNotFoundError
ReadExists(t) ==
    /\ tpc[t] \in Rest
    /\ ncalls < MaxCalls
    /\ \E f \in Paths :
         /\ targ' = [targ EXCEPT ![t] = [filename |-> f, data |-> <<>>]]
         /\ IF fs[f].exists
            THEN /\ tpc' = [tpc EXCEPT ![t] = "read_checked"]
                 /\ tret' = [tret EXCEPT ![t] = NoRet]
            ELSE /\ tpc' = [tpc EXCEPT ![t] = "read_raised"]
                 /\ tret' = [tret EXCEPT ![t] = Raise("FileNotFoundError", "File not found", 130)]
    /\ tenc' = [tenc EXCEPT ![t] = <<>>]
    /\ tcount' = [tcount EXCEPT ![t] = NoCount]
    /\ ncalls' = ncalls + 1
    /\ UNCHANGED <<fnvars, fs, written, lastw>>

\* line 132: with open(filename, "rb") as f (no call of the model removes a file)
ReadOpen(t) ==
    /\ tpc[t] = "read_checked"
    /\ IF fs[targ[t].filename].exists
       THEN /\ tpc' = [tpc EXCEPT ![t] = "read_open"]
            /\ tret' = tret
       ELSE /\ tpc' = [tpc EXCEPT ![t] = "read_raised"]
            /\ tret' = [tret EXCEPT ![t] = Raise("FileNotFoundError", "No such file or directory", 132)]
    /\ UNCHANGED <<fnvars, fs, targ, tenc, tcount, written, lastw, ncalls>>

\* line 133: return f.read()
ReadRead(t) ==
    /\ tpc[t] = "read_open"
    /\ tret' = [tret EXCEPT ![t] = Return(fs[targ[t].filename].content)]
    /\ tpc' = [tpc EXCEPT ![t] = "read_done"]
    /\ UNCHANGED <<fnvars, fs, targ, tenc, tcount, written, lastw, ncalls>>

Step(t) ==
    \/ GenEncrypt(t)
    \/ GenOpen(t)
    \/ GenWrite(t)
    \/ ReadExists(t)
    \/ ReadOpen(t)
    \/ ReadRead(t)

\* calls of any number of threads, interleaved statement by statement
FileNext == \E t \in Threads : Step(t)

FileSpec == FileInit /\ [][FileNext]_vars

\* calls made one after the other by a single caller
SeqNext == Step(1)

SeqSpec == FileInit /\ [][SeqNext]_vars

(***************************************************************************)
(* Properties.  The error names of the specification are the raise sites   *)
(* of encryption.py: InvalidSaltLength is line 39, MalformedBlob is line   *)
(* 87 (blob too short) or line 97 (the cipher refuses a ciphertext that is *)
(* no whole number of blocks), InvalidPadding is line 100 and              *)
(* AuthenticationFailed is line 103.                                       *)
(***************************************************************************)
RaisedAt(r, lines) == r.status = "raise" /\ r.exc = "ValueError" /\ r.line \in lines

\* decrypt has just been called on the blob exactly as encrypt returned it
DecryptedIntact == pc = "decrypted" /\ call.op = "decrypt" /\ call.intact

\* C1: round trip. Decrypting, with the same non-empty password, the blob
\* encrypt returned for p returns p, whatever salt and iv were drawn.
C1_RoundTrip ==
    (DecryptedIntact /\ call.k = inp.k /\ Len(inp.k) > 0)
        => (ret.status = "return" /\ ret.value = inp.data)

\* a round trip of a plaintext that itself begins with the marker
C1_Witness ==
    /\ DecryptedIntact
    /\ call.k = inp.k
    /\ Len(inp.k) > 0
    /\ Len(inp.data) > 7
    /\ SubSeq(inp.data, 1, 7) = <<95, 95, 83, 76, 69, 95, 95>>
    /\ ret.status = "return"

\* C2: length. encrypt returns 32 + ceil((len(p) + 7 + 1) / 16) * 16 bytes:
\* the header, the marker, p, and between 1 and 16 pad bytes (16 when
\* len(p) + 7 is a multiple of 16).
C2_Length ==
    (pc = "encrypted") =>
        LET n    == Len(inp.data)
            pads == Len(ret.value) - 32 - 7 - n
        IN  /\ ret.status = "return"
            /\ Len(ret.value) = 32 + ((n + 7 + 1 + 15) \div 16) * 16
            /\ pads \in 1..16
            /\ (Len(ret.value) - 32) % 16 = 0
            /\ ((n + 7) % 16 = 0) => (pads = 16)

\* encrypt of a 9-byte plaintext: marker and plaintext fill a block exactly
C2_Witness ==
    /\ pc = "encrypted"
    /\ Len(inp.data) = 9
    /\ Len(ret.value) = 64

\* the end-to-end scenario: encrypt has run on "correct-horse", b"top secret"
Scenario == pc = "encrypted" /\ inp.k = CorrectHorse /\ inp.data = TopSecret

\* C3 as stated: in the end-to-end scenario encrypt returns a 48-byte blob.
C3_Blob48 == Scenario => (ret.status = "return" /\ Len(ret.value) = 48)

\* C3 amended: in the end-to-end scenario encrypt returns a 64-byte blob
\* (7 + 10 = 17 bytes, padded to 32, after the 32-byte header).
C3_Blob64 == Scenario => (ret.status = "return" /\ Len(ret.value) = 64)

C3_Witness == Scenario /\ ret.status = "return" /\ Len(ret.value) > 48

\* C4: malformed input. decrypt of a blob shorter than 32 bytes, or of one
\* whose ciphertext part is no multiple of 16 bytes, raises the malformed
\* blob error and returns nothing, before the padding or the marker is
\* looked at.
C4_Malformed ==
    (pc = "decrypted" /\ call.op = "decrypt") =>
        /\ (Len(call.arg) < 32) => RaisedAt(ret, {87})
        /\ (Len(call.arg) >= 32 /\ (Len(call.arg) - 32) % 16 # 0) => RaisedAt(ret, {97})

\* decrypt refused a 33-byte blob: one stray byte of ciphertext
C4_Witness ==
    /\ pc = "decrypted"
    /\ Len(call.arg) = 33
    /\ RaisedAt(ret, {97})

\* C5 as stated: decrypt of a blob of exactly 32 bytes raises the malformed
\* blob error where the blob is split, not a padding error.
C5_EmptyMalformed ==
    (pc = "decrypted" /\ call.op = "decrypt" /\ Len(call.arg) = 32)
        => RaisedAt(ret, {87, 97})

\* C5 amended: decrypt of a blob of exactly 32 bytes raises the padding
\* error of the unpadder (the cipher accepts an empty ciphertext).
C5_EmptyInvalidPadding ==
    (pc = "decrypted" /\ call.op = "decrypt" /\ Len(call.arg) = 32)
        => (RaisedAt(ret, {100}) /\ ret.msg = "Invalid padding bytes.")

C5_Witness ==
    /\ pc = "decrypted"
    /\ call.op = "decrypt"
    /\ Len(call.arg) = 32
    /\ ret.status = "raise"

RECURSIVE StripZeros(_)
StripZeros(s) ==
    IF Len(s) > 0 /\ s[Len(s)] = 0 THEN StripZeros(SubSeq(s, 1, Len(s) - 1)) ELSE s

\* two passwords, neither longer than the 64-byte block of the hash, that
\* differ at most by trailing zero bytes
SameUpToZeros(k1, k2) ==
    /\ Len(k1) <= 64
    /\ Len(k2) <= 64
    /\ StripZeros(k1) = StripZeros(k2)

\* C6 as stated: decrypt under another password than the one that encrypted
\* always ends in the padding error or the marker error.
C6_WrongPasswordFails ==
    (DecryptedIntact /\ call.k # inp.k) => RaisedAt(ret, {100, 103})

\* C6 amended: decrypt under another password ends in the padding error,
\* in the marker error, or returns; it raises neither the malformed blob
\* nor the salt error, and it returns p itself when the two passwords, of
\* at most 64 bytes, differ only by trailing zero bytes (HMAC pads its key
\* with zeros, so they derive the same key).
C6_WrongPassword ==
    (DecryptedIntact /\ call.k # inp.k) =>
        /\ RaisedAt(ret, {100, 103}) \/ ret.status = "return"
        /\ SameUpToZeros(call.k, inp.k) => (ret.status = "return" /\ ret.value = inp.data)

\* b"pw\x00" opens what b"pw" encrypted
C6_Witness ==
    /\ DecryptedIntact
    /\ inp.k = <<112, 119>>
    /\ call.k = <<112, 119, 0>>
    /\ ret.status = "return"

\* C7: salt length. _derive_key raises the salt error for every salt that
\* is not 16 bytes long and returns a 32-byte key for one that is; decrypt
\* never raises the salt error.
C7_SaltLength ==
    /\ (pc = "derived") =>
          /\ (Len(call.arg) # 16) => RaisedAt(ret, {39})
          /\ (Len(call.arg) = 16) => (ret.status = "return" /\ Len(ret.value) = 32)
    /\ (pc = "decrypted") => ~RaisedAt(ret, {39})

\* _derive_key refused a 17-byte salt
C7_Witness ==
    /\ pc = "derived"
    /\ Len(call.arg) = 17
    /\ RaisedAt(ret, {39})

\* the sequence the cipher yields for the blob of the last decrypt call
DecryptedSeq ==
    CBCDecryptFrom(Pbkdf2(call.k, SubSeq(call.arg, 1, 16), 32),
                   SubSeq(call.arg, 17, 32),
                   SubSeq(call.arg, 33, Len(call.arg)))

WellFormedPad(s) ==
    /\ Len(s) > 0
    /\ s[Len(s)] \in 1..16
    /\ \A i \in (Len(s) - s[Len(s)] + 1)..Len(s) : s[i] = s[Len(s)]

Unpadded(s) == SubSeq(s, 1, Len(s) - s[Len(s)])

HasMarker(s) == Len(s) >= 7 /\ SubSeq(s, 1, 7) = <<95, 95, 83, 76, 69, 95, 95>>

\* C10: order of the checks. For a blob that passes the length checks,
\* decrypt raises the padding error whenever the decrypted sequence has no
\* well-formed pad (marker or not); it raises the marker error exactly when
\* the pad is well formed and the unpadded bytes do not begin with the
\* marker; otherwise it returns the unpadded bytes after the first 7.
C10_CheckOrder ==
    (/\ pc = "decrypted"
     /\ call.op = "decrypt"
     /\ Len(call.arg) >= 32
     /\ (Len(call.arg) - 32) % 16 = 0) =>
        LET s == DecryptedSeq
        IN  /\ ~WellFormedPad(s) => RaisedAt(ret, {100})
            /\ RaisedAt(ret, {103}) <=> (WellFormedPad(s) /\ ~HasMarker(Unpadded(s)))
            /\ (WellFormedPad(s) /\ HasMarker(Unpadded(s))) =>
                  /\ ret.status = "return"
                  /\ ret.value = SubSeq(Unpadded(s), 8, Len(Unpadded(s)))

\* a sequence that begins with the marker and ends in a malformed pad
C10_Witness ==
    /\ pc = "decrypted"
    /\ inp.kind = "raw"
    /\ call.k = inp.k
    /\ HasMarker(inp.data)
    /\ ~WellFormedPad(inp.data)
    /\ DecryptedSeq = inp.data
    /\ RaisedAt(ret, {100})

\* the file is as the last whole write (or its absence) left it
FileAsLastWrite(f) ==
    IF lastw[f].kind = "absent" THEN ~fs[f].exists
    ELSE /\ lastw[f].kind \in {"old", "write"}
         /\ fs[f].exists
         /\ fs[f].content = lastw[f].blob

\* C8: file wrappers. A generate_file that returns has made one encrypt,
\* one open and one write, and the file holds exactly the blob encrypt
\* returned; a read_file that follows it with no write in between returns
\* that blob, bytes of the former content gone, and decrypt of it returns
\* data; a generate_file whose encrypt raises has opened and changed nothing.
C8_FileRoundTrip ==
    \A t \in Threads :
        LET f == targ[t].filename
        IN  /\ (tpc[t] = "gen_done") =>
                  /\ tcount[t] = [enc |-> 1, open |-> 1, write |-> 1]
                  /\ fs[f] = [exists |-> TRUE, content |-> tenc[t]]
            /\ (tpc[t] = "gen_raised") =>
                  /\ tcount[t] = [enc |-> 1, open |-> 0, write |-> 0]
                  /\ FileAsLastWrite(f)
            /\ (tpc[t] = "read_done" /\ lastw[f].kind = "write") =>
                  /\ tret[t].status = "return"
                  /\ tret[t].value = lastw[f].blob
                  /\ decrypt(FilePassword, tret[t].value) = Return(lastw[f].data)

\* a.ac.es held the 80-byte blob; generate_file wrote the 64-byte blob of
\* b"top secret" over it, and read_file has read it back
C8_Witness ==
    \E t \in Threads :
        /\ tpc[t] = "read_done"
        /\ targ[t].filename = "a.ac.es"
        /\ lastw["a.ac.es"].kind = "write"
        /\ lastw["a.ac.es"].data = TopSecret
        /\ Len(tret[t].value) = 64
        /\ Len(OldBlob) = 80

\* C9: parallel safety. Whatever the interleaving, read_file returns the
\* whole content some completed write (or the former content) gave the
\* file: never an empty or partly written blob.
C9_ParallelSafe ==
    \A t \in Threads :
        (tpc[t] = "read_done") => (tret[t].status = "return" /\ tret[t].value \in written)

=============================================================================
